---- MODULE Spec2Model ----
(***************************************************************************)
(* Model of lib/plugins/outbound-link-tracker.js (autotrack).              *)
(*                                                                         *)
(* One OutboundLinkTracker instance lives on one page.  The state is the   *)
(* instance's fields (opts, delegates, fallbackTimeout), the closures made *)
(* by createHitCallback, the browser's timer table, the links' target      *)
(* attributes, document.location, and what the tracker was asked to send.  *)
(* Every handler runs to completion in one turn of the event loop, so each *)
(* handler is one action.                                                  *)
(***************************************************************************)
EXTENDS Integers, Sequences, FiniteSets, TLC

VARIABLES
    env,                \* the browser: window.addEventListener, navigator.sendBeacon
    opts,               \* this.opts (defined = FALSE when the constructor returned early)
    delegates,          \* this.delegates: event name -> state of its delegate
    linkTarget,         \* the target attribute of every link of the page
    fallbackTimeout,    \* this.fallbackTimeout: a timer handle, 0 when never set
    timers,             \* the browser's timers, by handle
    hitCallbackHasRun,  \* the guard of every closure made by createHitCallback
    cbLink,             \* the link every such closure has captured
    sendState,          \* the analytics send that carries the closure as hitCallback
    navCount,           \* how often each closure has assigned document.location
    location,           \* document.location
    clicks,             \* number of DOM interactions so far
    last,               \* the latest DOM interaction: its event, what the handler
                        \* did to the event, and the tracker.send calls it made
    error,              \* the exception the latest handler run or remove() let escape
    removeCalls         \* how often remove() has been called

vars == <<env, opts, delegates, linkTarget, fallbackTimeout, timers,
          hitCallbackHasRun, cbLink, sendState, navCount, location,
          clicks, last, error, removeCalls>>

(***************************************************************************)
(* Bounds of the model.                                                    *)
(***************************************************************************)
\* DOM interactions in one behaviour; each may create one closure and timer
MaxClicks == 2
\* calls of remove() in one behaviour
MaxRemoves == 2

(***************************************************************************)
(* The page and its links.                                                 *)
(***************************************************************************)
NoLink == "nolink"
NoError == "none"

LocationHostname == "example.com"
PageUrl == "http://example.com/"

\* ext, extTop, extNamed: other hosts; same, sameNew: the page's host;
\* mail: a mailto: link; extX: another host, under a scheme that is neither
\* http nor https but begins with the same four letters.
Links == {"ext", "extTop", "extNamed", "same", "sameNew", "mail", "extX"}

\* link.href
Href(link) ==
    CASE link = "ext"      -> "http://other.example/x"
      [] link = "extTop"   -> "https://other.example/top"
      [] link = "extNamed" -> "https://third.example/n"
      [] link = "same"     -> "http://example.com/a"
      [] link = "sameNew"  -> "https://example.com/b"
      [] link = "mail"     -> "mailto:someone@other.example"
      [] link = "extX"     -> "httpx://other.example/y"

\* parseUrl(href): the protocol is a sequence of characters, so that slice()
\* can be taken of it.
ParseUrl(href) ==
    CASE href = "http://other.example/x" ->
            [hostname |-> "other.example", protocol |-> <<"h","t","t","p",":">>]
      [] href = "https://other.example/top" ->
            [hostname |-> "other.example", protocol |-> <<"h","t","t","p","s",":">>]
      [] href = "https://third.example/n" ->
            [hostname |-> "third.example", protocol |-> <<"h","t","t","p","s",":">>]
      [] href = "http://example.com/a" ->
            [hostname |-> "example.com", protocol |-> <<"h","t","t","p",":">>]
      [] href = "https://example.com/b" ->
            [hostname |-> "example.com", protocol |-> <<"h","t","t","p","s",":">>]
      [] href = "mailto:someone@other.example" ->
            [hostname |-> "", protocol |-> <<"m","a","i","l","t","o",":">>]
      [] href = "httpx://other.example/y" ->
            [hostname |-> "other.example", protocol |-> <<"h","t","t","p","x",":">>]

\* The target attribute the markup gives each link ("" when it has none).
DeclaredTarget(link) ==
    CASE link = "extTop"   -> "_TOP"
      [] link = "extNamed" -> "frame1"
      [] link = "sameNew"  -> "_blank"
      [] OTHER             -> ""

Targets == {"", "_TOP", "frame1", "_blank"}

\* String.prototype.slice(from, to) on a sequence of characters.
Slice(s, from, to) ==
    SubSeq(s, from + 1, IF to < Len(s) THEN to ELSE Len(s))

\* A non-empty string is truthy.
Truthy(s) == s # ""

(***************************************************************************)
(* DOM events.                                                             *)
(***************************************************************************)
EventTypes == {"click", "contextmenu"}
Modifiers == {"none", "ctrl", "shift", "meta", "middle"}

\* The interactions of the model: clicks with every modifier, and a plain
\* contextmenu event.
InteractionKinds ==
    {<<"click", m>> : m \in Modifiers} \cup {<<"contextmenu", "none">>}

\* The event object of an interaction of the given type with the given
\* modifier key or button.
DomEvent(type, mod) ==
    [type     |-> type,
     ctrlKey  |-> (mod = "ctrl"),
     shiftKey |-> (mod = "shift"),
     metaKey  |-> (mod = "meta"),
     which    |-> IF mod = "middle" THEN 2 ELSE 1]


(***************************************************************************)
(* Objects and the fields of a hit.                                        *)
(***************************************************************************)
EmptyObj == [k \in {} |-> ""]

\* An assign that copies the first object only.
Assign_FirstOnly(a, b) == a

\* object-assign onto a fresh object: the keys of b win over those of a.
Assign(a, b) ==
    [k \in DOMAIN a \cup DOMAIN b |-> IF k \in DOMAIN b THEN b[k] ELSE a[k]]

\* getAttributeFields(link, 'ga-'): the link's ga-* attributes, prefix
\* stripped; extNamed carries ga-event-category, extTop ga-non-interaction.
GetAttributeFields(link) ==
    CASE link = "extNamed" -> [eventCategory |-> "Partner"]
      [] link = "extTop"   -> [nonInteraction |-> "true"]
      [] OTHER             -> EmptyObj

\* What a hitFilter can do to the hit it is given: leave it as it is,
\* change fields of it, or veto it by throwing.
HitFilterOutcomes == {"pass", "change", "throw"}

\* The fields the hitFilter of the page sets when it changes a hit.
HitFilterChange == [eventCategory |-> "Filtered", eventLabel |-> "redacted"]

\* createFieldsObj(defaultFields, userFields, tracker, hitFilter, link):
\* the user's fields laid over the defaults, and then, when a hitFilter is
\* configured, what the hitFilter makes of them: it may change fields, and
\* it may veto the hit by throwing.  `changed` names the fields it set.
CreateFieldsObj(defaultFields, userFields, hitFilter, outcome) ==
    LET merged == Assign(defaultFields, userFields)
    IN  IF hitFilter = "function" /\ outcome = "throw"
          THEN [threw |-> TRUE, changed |-> {}, fields |-> EmptyObj]
          ELSE IF hitFilter = "function" /\ outcome = "change"
            THEN [threw |-> FALSE, changed |-> DOMAIN HitFilterChange,
                  fields |-> Assign(merged, HitFilterChange)]
            ELSE [threw |-> FALSE, changed |-> {}, fields |-> merged]

(***************************************************************************)
(* Construction.                                                           *)
(***************************************************************************)
\* The option overlays of the modelled configurations: events and fallback
\* are overridden, hitFilter is null or a function, and a fieldsObj is
\* given in the configurations that listen to clicks only and have no
\* hitFilter; the rest keep defaults.
OptsChoices ==
    [defined   : {TRUE},
     events    : {{"click"}, {"click", "contextmenu"}},
     fieldsObj : {EmptyObj},
     hitFilter : {"null", "function"},
     fallback  : {"_blank", "wait", ""}]
    \cup
    [defined   : {TRUE},
     events    : {{"click"}},
     fieldsObj : {[eventCategory |-> "Campaign"]},
     hitFilter : {"null"},
     fallback  : {"_blank", "wait", ""}]

\* The fields of an instance whose constructor returned at the feature test.
NoOpts ==
    [defined |-> FALSE, events |-> {}, fieldsObj |-> EmptyObj,
     hitFilter |-> "null", fallback |-> ""]

Slots == 1..MaxClicks

NoInteraction ==
    [link |-> NoLink, event |-> DomEvent("click", "none"),
     ran |-> FALSE, defaultPrevented |-> FALSE, target |-> "", sent |-> <<>>,
     threw |-> FALSE, changed |-> {}]

\* delegate(document, event, linkSelector, handler, ...) for every event.
Delegates(events) == [e \in events |-> "attached"]

\* A constructor that goes on whatever the browser supports.
FeatureDetected_Always(e) == TRUE

\* `if (!window.addEventListener) return;` does not return.
FeatureDetected(e) == e.addEventListener

\* The state after `new OutboundLinkTracker(tracker, opts)`.
Init ==
    /\ env \in [addEventListener : BOOLEAN, sendBeacon : BOOLEAN]
    /\ IF FeatureDetected(env)
         THEN /\ opts \in OptsChoices
              /\ delegates = [defined |-> TRUE, byEvent |-> Delegates(opts.events)]
         ELSE /\ opts = NoOpts
              /\ delegates = [defined |-> FALSE, byEvent |-> Delegates({})]
    /\ linkTarget = [l \in Links |-> DeclaredTarget(l)]
    /\ fallbackTimeout = 0
    /\ timers = [k \in Slots |-> "unset"]
    /\ hitCallbackHasRun = [k \in Slots |-> FALSE]
    /\ cbLink = [k \in Slots |-> NoLink]
    /\ sendState = [k \in Slots |-> "none"]
    /\ navCount = [k \in Slots |-> 0]
    /\ location = PageUrl
    /\ clicks = 0
    /\ last = NoInteraction
    /\ error = NoError
    /\ removeCalls = 0

(***************************************************************************)
(* shouldTrackOutboundLink and the navigation target.                      *)
(***************************************************************************)
\* A predicate that leaves out the hostname comparison.
ShouldTrackOutboundLink_AnyHost(link) ==
    Slice(ParseUrl(Href(link)).protocol, 0, 4) = <<"h", "t", "t", "p">>

\* The default predicate: another hostname, and a protocol starting "http".
ShouldTrackOutboundLink(link) ==
    LET url == ParseUrl(Href(link))
    IN  /\ url.hostname # LocationHostname
        /\ Slice(url.protocol, 0, 4) = <<"h", "t", "t", "p">>

\* String.prototype.toLowerCase on the targets of the page.
ToLowerCase(t) == IF t = "_TOP" THEN "_top" ELSE t

\* A keyword test that compares case-sensitively.
MatchesFrameKeyword_CaseSensitive(t) == t \in {"_self", "_parent", "_top"}

\* target.match(/^_(self|parent|top)$/i)
MatchesFrameKeyword(t) == ToLowerCase(t) \in {"_self", "_parent", "_top"}

\* A modifier test that leaves out the meta key.
OpensNewTab_NoMeta(event) ==
    event.ctrlKey \/ event.shiftKey \/ event.which = 2

\* event.ctrlKey || event.shiftKey || event.metaKey || event.which == 2
OpensNewTab(event) ==
    event.ctrlKey \/ event.shiftKey \/ event.metaKey \/ event.which = 2

\* The local `target` of the handler; "" stands for false.
NavTarget(link, event) ==
    LET declared == IF Truthy(linkTarget[link])
                         /\ ~MatchesFrameKeyword(linkTarget[link])
                      THEN linkTarget[link] ELSE ""
    IN  IF OpensNewTab(event) THEN "_blank" ELSE declared

\* A fallback decision that leaves out the test of navigator.sendBeacon.
FallbackStrategy_NoBeaconTest(target) ==
    IF Truthy(opts.fallback)
      THEN IF opts.fallback = "_blank" THEN "_blank"
           ELSE IF opts.fallback = "wait" /\ ~Truthy(target) THEN "wait"
           ELSE "none"
      ELSE "none"

\* Which branch of the fallback the handler takes: "_blank", "wait" or "none".
FallbackStrategy(target) ==
    IF ~env.sendBeacon /\ Truthy(opts.fallback)
      THEN IF opts.fallback = "_blank" THEN "_blank"
           ELSE IF opts.fallback = "wait" /\ ~Truthy(target) THEN "wait"
           ELSE "none"
      ELSE "none"

\* A "_blank" fallback that leaves the link as it is.
RewriteTarget_Keep(lt, link) == lt

\* link.target = '_blank'
RewriteTarget(lt, link) == [lt EXCEPT ![link] = "_blank"]

\* defaultFields as built at the top of the handler.
DefaultFields(event, link) ==
    [transport     |-> "beacon",
     eventCategory |-> "Outbound Link",
     eventAction   |-> event.type,
     eventLabel    |-> Href(link)]

(***************************************************************************)
(* createHitCallback and the closure it returns.                           *)
(***************************************************************************)
\* The handle the next setTimeout returns, which is also the index of the
\* closure it runs: one of each is made per deferred navigation.
NextSlot == Cardinality({k \in Slots : cbLink[k] # NoLink}) + 1

\* clearTimeout(handle): cancels the timer if it is still pending.
ClearTimeout(tm, handle) ==
    IF handle \in DOMAIN tm /\ tm[handle] = "pending"
      THEN [tm EXCEPT ![handle] = "cleared"]
      ELSE tm

\* A closure whose guard never returns early.
GuardReturns_Never(hasRun) == FALSE

\* `if (hitCallbackHasRun) { return; }`
GuardReturns(hasRun) == hasRun

\* One invocation of the closure of slot k, with the timer table as tm.
HitCallback(k, tm) ==
    IF GuardReturns(hitCallbackHasRun[k])
      THEN /\ timers' = tm
           /\ UNCHANGED <<hitCallbackHasRun, location, navCount>>
      ELSE /\ timers' = ClearTimeout(tm, fallbackTimeout)
           /\ hitCallbackHasRun' = [hitCallbackHasRun EXCEPT ![k] = TRUE]
           /\ location' = Href(cbLink[k])
           /\ navCount' = [navCount EXCEPT ![k] = @ + 1]

(***************************************************************************)
(* handleLinkInteractions.                                                 *)
(***************************************************************************)
\* A handler that starts the timer only after the hit has been composed.
StartsTimer_AfterSend(strategy, threw) == strategy = "wait" /\ ~threw

\* Whether setTimeout has run by the time the handler ends or throws: the
\* timer is started in the "wait" branch, before the hit is composed.
StartsTimer(strategy, threw) == strategy = "wait"

\* A handler that sends the hit a second time.
TrackerSend_Twice(composed) ==
    IF composed.threw THEN <<>>
    ELSE <<[hitType |-> "event", fields |-> composed.fields],
           [hitType |-> "event", fields |-> composed.fields]>>

\* The tracker.send calls of one run of the handler: one, unless composing
\* the hit threw.
TrackerSend(composed) ==
    IF composed.threw THEN <<>>
    ELSE <<[hitType |-> "event", fields |-> composed.fields]>>

\* The whole handler, for one event on one link; outcome says what the
\* hitFilter, if there is one, does with this hit.
HandleLinkInteractions(event, link, outcome) ==
    IF ShouldTrackOutboundLink(link)
      THEN
        LET userFields == Assign(opts.fieldsObj, GetAttributeFields(link))
            target     == NavTarget(link, event)
            strategy   == FallbackStrategy(target)
            k          == NextSlot
            defaultFields ==
                IF strategy = "wait"
                  THEN Assign(DefaultFields(event, link), [hitCallback |-> k])
                  ELSE DefaultFields(event, link)
            composed == CreateFieldsObj(defaultFields, userFields,
                                        opts.hitFilter, outcome)
        IN  /\ linkTarget' = IF strategy = "_blank"
                               THEN RewriteTarget(linkTarget, link)
                               ELSE linkTarget
            /\ IF strategy = "wait"
                 THEN /\ cbLink' = [cbLink EXCEPT ![k] = link]
                      /\ sendState' = IF composed.threw THEN sendState
                                      ELSE [sendState EXCEPT ![k] = "inflight"]
                 ELSE UNCHANGED <<cbLink, sendState>>
            /\ IF StartsTimer(strategy, composed.threw)
                 THEN /\ timers' = [timers EXCEPT ![k] = "pending"]
                      /\ fallbackTimeout' = k
                 ELSE UNCHANGED <<timers, fallbackTimeout>>
            /\ error' = IF composed.threw THEN "HitFilterError" ELSE NoError
            /\ last' = [link |-> link, event |-> event, ran |-> TRUE,
                        defaultPrevented |-> (strategy = "wait"),
                        target |-> target,
                        sent |-> TrackerSend(composed),
                        threw |-> composed.threw,
                        changed |-> composed.changed]
      ELSE
        /\ last' = [link |-> link, event |-> event, ran |-> TRUE,
                    defaultPrevented |-> FALSE, target |-> "", sent |-> <<>>,
                    threw |-> FALSE, changed |-> {}]
        /\ error' = NoError
        /\ UNCHANGED <<linkTarget, cbLink, timers, fallbackTimeout, sendState>>

\* Whether the delegate of this event type is still listening.
Listening(type) ==
    /\ delegates.defined
    /\ type \in DOMAIN delegates.byEvent
    /\ delegates.byEvent[type] = "attached"

\* The user interacts with a link: the browser dispatches the event, and the
\* delegate, if there is one for its type, calls the handler.
Interaction(type, mod, link, outcome) ==
    /\ clicks < MaxClicks
    /\ clicks' = clicks + 1
    /\ IF Listening(type)
         THEN HandleLinkInteractions(DomEvent(type, mod), link, outcome)
         ELSE /\ last' = [link |-> link, event |-> DomEvent(type, mod),
                          ran |-> FALSE, defaultPrevented |-> FALSE,
                          target |-> "", sent |-> <<>>, threw |-> FALSE,
                          changed |-> {}]
              /\ UNCHANGED <<linkTarget, cbLink, timers, fallbackTimeout,
                             sendState, error>>
    /\ UNCHANGED <<env, opts, delegates, hitCallbackHasRun, navCount, location,
                   removeCalls>>

\* The fallbackWait timer of slot k expires: the browser runs the closure.
TimerFire(k) ==
    /\ timers[k] = "pending"
    /\ HitCallback(k, [timers EXCEPT ![k] = "fired"])
    /\ UNCHANGED <<env, opts, delegates, linkTarget, fallbackTimeout, cbLink,
                   sendState, clicks, last, error, removeCalls>>

\* analytics.js reports the hit of slot k as sent: it calls its hitCallback.
SendComplete(k) ==
    /\ sendState[k] = "inflight"
    /\ sendState' = [sendState EXCEPT ![k] = "completed"]
    /\ HitCallback(k, timers)
    /\ UNCHANGED <<env, opts, delegates, linkTarget, fallbackTimeout, cbLink,
                   clicks, last, error, removeCalls>>

(***************************************************************************)
(* remove.                                                                 *)
(***************************************************************************)
\* A remove() that destroys the delegate of "click" only.
DestroyAll_ClickOnly(byEvent) ==
    [e \in DOMAIN byEvent |-> IF e = "click" THEN "destroyed" ELSE byEvent[e]]

\* delegates[key].destroy() for every key.
DestroyAll(byEvent) == [e \in DOMAIN byEvent |-> "destroyed"]

\* remove(): Object.keys(this.delegates) throws a TypeError when the
\* constructor returned before this.delegates was assigned.
Remove ==
    /\ removeCalls < MaxRemoves
    /\ removeCalls' = removeCalls + 1
    /\ IF delegates.defined
         THEN /\ delegates' = [delegates EXCEPT !.byEvent = DestroyAll(@)]
              /\ error' = NoError
         ELSE /\ error' = "TypeError"
              /\ UNCHANGED delegates
    /\ UNCHANGED <<env, opts, linkTarget, fallbackTimeout, timers,
                   hitCallbackHasRun, cbLink, sendState, navCount, location,
                   clicks, last>>

(***************************************************************************)
(* Specifications.                                                         *)
(***************************************************************************)
\* What the hitFilter does with the hit of this interaction: only a
\* configured one does anything, and only when the handler composes a hit.
FilterOutcomes(type, link) ==
    IF opts.hitFilter = "function" /\ Listening(type)
          /\ ShouldTrackOutboundLink(link)
      THEN HitFilterOutcomes ELSE {"pass"}

Next ==
    \/ \E kind \in InteractionKinds, link \in Links :
          \E outcome \in FilterOutcomes(kind[1], link) :
            Interaction(kind[1], kind[2], link, outcome)
    \/ \E k \in Slots : TimerFire(k)
    \/ \E k \in Slots : SendComplete(k)
    \/ Remove

Spec == Init /\ [][Next]_vars

\* The browser runs every timer that stays pending.
FairSpec == Spec /\ \A k \in Slots : WF_vars(TimerFire(k))

(***************************************************************************)
(* Properties of deferred navigations.                                     *)
(***************************************************************************)
\* remove() has been called.
removed == removeCalls > 0

\* Slot k holds a deferred navigation: the handler prevented the default
\* navigation of a click and made closure k for it.
Deferred(k) == cbLink[k] # NoLink

\* How often closure k has been invoked: by its timer, by its send.
Invocations(k) ==
    (IF timers[k] = "fired" THEN 1 ELSE 0)
      + (IF sendState[k] = "completed" THEN 1 ELSE 0)

\* The latest interaction is the case of C1: the handler ran for a plain
\* interaction on an outbound link without explicit target, with the "wait"
\* fallback and no beacon transport.
WaitCase ==
    /\ last.ran
    /\ opts.fallback = "wait" /\ ~env.sendBeacon
    /\ ShouldTrackOutboundLink(last.link)
    /\ ~OpensNewTab(last.event)
    /\ linkTarget[last.link] \in {"", "_TOP"}

\* C1: with fallback "wait" and no beacon, a plain interaction on an
\* outbound link without explicit target has its default navigation
\* prevented, and afterwards the body of its closure runs exactly once, on
\* the first of send completion and timer expiry, and navigates to the
\* link's href.
C1_WaitClickNavigatesOnce ==
    /\ [](WaitCase => last.defaultPrevented)
    /\ \A k \in Slots : Deferred(k) ~> (navCount[k] = 1)
    /\ [][\A k \in Slots : navCount'[k] # navCount[k]
              => location' = Href(cbLink[k])]_vars

\* C2: a click whose default navigation was prevented navigates no later
\* than the expiry of its own timer: while it has not navigated, its timer
\* is still pending.
C2_NavigationNeverBlocked ==
    \A k \in Slots : (Deferred(k) /\ navCount[k] = 0) => timers[k] = "pending"

\* C3: a closure assigns document.location at most once however often it is
\* invoked; invoked by both its send and its timer it has navigated exactly
\* once, and an invocation after the first changes nothing.
C3_CallbackNavigatesOnce ==
    /\ [](\A k \in Slots : /\ navCount[k] <= 1
                           /\ Invocations(k) = 2 => navCount[k] = 1)
    /\ [][\A k \in Slots :
            (/\ hitCallbackHasRun[k]
             /\ \/ timers[k] = "pending" /\ timers'[k] = "fired"
                \/ sendState[k] = "inflight" /\ sendState'[k] = "completed")
              => /\ UNCHANGED <<location, navCount, hitCallbackHasRun,
                                fallbackTimeout, linkTarget>>
                 /\ \A j \in Slots \ {k} : timers'[j] = timers[j]]_vars

\* Closure k was invoked twice, by its timer and by its send.
C3_Witness ==
    \E k \in Slots : Invocations(k) = 2 /\ navCount[k] = 1

\* C9: at most one fallback timer of the instance is pending at a time.
C9_AtMostOneTimer ==
    Cardinality({k \in Slots : timers[k] = "pending"}) <= 1

(***************************************************************************)
(* Properties of one run of the handler.                                   *)
(***************************************************************************)
\* The handler's effects on the page and on its own fields.
handlerEffects == <<linkTarget, timers, fallbackTimeout, cbLink, sendState>>

\* The step is a DOM interaction; last' then describes it.
IsInteraction == clicks' = clicks + 1

\* The event has ctrl, shift or meta held, or comes from the middle button.
Modified(event) ==
    event.ctrlKey \/ event.shiftKey \/ event.metaKey \/ event.which = 2

\* The latest interaction reached the handler, on a link its predicate accepts.
TrackedCase == last.ran /\ ShouldTrackOutboundLink(last.link)

\* No hit of the latest interaction carries a hitCallback.
NoHitCallback(l) ==
    \A i \in DOMAIN l.sent : "hitCallback" \notin DOMAIN l.sent[i].fields

\* C4 as claimed: every interaction on a link the predicate accepts makes
\* exactly one tracker.send call.
C4_ExactlyOneSend == TrackedCase => Len(last.sent) = 1

\* C4: every interaction on a link the predicate accepts makes exactly one
\* tracker.send('event', ...) call, or none when composing the hit threw;
\* never more than one.
C4_OneSendUnlessThrown ==
    TrackedCase =>
        /\ Len(last.sent) = (IF last.threw THEN 0 ELSE 1)
        /\ \A i \in DOMAIN last.sent : last.sent[i].hitType = "event"

\* The handler has sent the hit of a deferred click.
C4_Witness ==
    TrackedCase /\ Len(last.sent) = 1 /\ last.defaultPrevented

\* The link's hostname is the page's.
SameHost(link) == ParseUrl(Href(link)).hostname = LocationHostname

\* C5: an interaction on a link of the page's own hostname has no effect:
\* nothing sent, default navigation not prevented, no target changed, no
\* timer or closure made, in every configuration.
C5_SameHostNoEffect ==
    [][(IsInteraction /\ SameHost(last'.link))
          => /\ last'.sent = <<>>
             /\ ~last'.defaultPrevented
             /\ UNCHANGED handlerEffects
             /\ UNCHANGED <<hitCallbackHasRun, navCount, location>>]_vars

\* The handler ran for a modified click on a same-host link with a target.
C5_Witness ==
    /\ last.ran /\ SameHost(last.link)
    /\ last.event.ctrlKey /\ linkTarget[last.link] = "_blank"
    /\ ~env.sendBeacon /\ opts.fallback = "_blank"

\* C6: an interaction with ctrl, shift or meta held, or with the middle
\* button, on an outbound link gets the target "_blank" whatever the link
\* declares, and never the "wait" fallback: no preventDefault, no
\* hitCallback in the hit, no timer.
C6_ModifierClickNeverWaits ==
    [][(/\ IsInteraction
        /\ last'.ran
        /\ Modified(last'.event)
        /\ ShouldTrackOutboundLink(last'.link))
          => /\ last'.target = "_blank"
             /\ ~last'.defaultPrevented
             /\ NoHitCallback(last')
             /\ UNCHANGED <<timers, fallbackTimeout, cbLink, sendState>>]_vars

\* A meta-click on a link declaring _TOP was handled where a plain click
\* would have been deferred.
C6_Witness ==
    /\ TrackedCase /\ last.event.metaKey
    /\ linkTarget[last.link] = "_TOP"
    /\ opts.fallback = "wait" /\ ~env.sendBeacon
    /\ last.target = "_blank"

\* C7: once remove() has been called, every delegate made at construction
\* is destroyed, and no interaction reaches the handler or has any effect.
C7_RemovedHandlerIsInert ==
    /\ [](removed =>
            \A e \in DOMAIN delegates.byEvent : delegates.byEvent[e] = "destroyed")
    /\ [][(removed /\ IsInteraction)
            => /\ ~last'.ran
               /\ last'.sent = <<>>
               /\ ~last'.defaultPrevented
               /\ UNCHANGED handlerEffects
               /\ UNCHANGED <<hitCallbackHasRun, navCount, location, error>>]_vars

\* After remove(), a contextmenu event the handler was configured for came
\* on an outbound link and did not reach the handler.
C7_Witness ==
    /\ removed /\ delegates.defined
    /\ last.event.type = "contextmenu" /\ last.event.type \in opts.events
    /\ ShouldTrackOutboundLink(last.link)
    /\ ~last.ran

\* The latest interaction reached the handler on an outbound link while the
\* beacon transport is available.
BeaconCase == env.sendBeacon /\ TrackedCase

\* C8 as claimed: with the beacon transport, the interaction's one event has
\* transport beacon, category "Outbound Link", the event type as action and
\* the href as label, and navigation is not interfered with.
C8_BeaconDefaultEvent ==
    BeaconCase =>
        /\ ~last.defaultPrevented
        /\ Len(last.sent) = 1
        /\ last.sent[1].fields.transport = "beacon"
        /\ last.sent[1].fields.eventCategory = "Outbound Link"
        /\ last.sent[1].fields.eventAction = last.event.type
        /\ last.sent[1].fields.eventLabel = Href(last.link)

\* The fields the user's configuration sets on the hit of a link: those of
\* opts.fieldsObj and those of the link's ga- attributes.
UserFieldNames(link) == DOMAIN opts.fieldsObj \cup DOMAIN GetAttributeFields(link)

\* C8: with the beacon transport, whatever the fallback setting, the
\* interaction does not prevent the default navigation, rewrite a target,
\* or make a timer or closure; and unless composing the hit threw, it sends
\* one event, which has no hitCallback, transport beacon, the event type as
\* action, the href as label and category "Outbound Link", each unless
\* opts.fieldsObj or a ga- attribute of the link sets that field or the
\* hitFilter has changed it.
C8_BeaconNoInterference ==
    /\ [](BeaconCase =>
            /\ ~last.defaultPrevented
            /\ Len(last.sent) = (IF last.threw THEN 0 ELSE 1)
            /\ \A i \in DOMAIN last.sent :
                 LET f == last.sent[i].fields
                     kept(name) == name \notin UserFieldNames(last.link)
                                    /\ name \notin last.changed
                 IN  /\ kept("hitCallback") => "hitCallback" \notin DOMAIN f
                     /\ kept("transport") => f.transport = "beacon"
                     /\ kept("eventCategory")
                          => f.eventCategory = "Outbound Link"
                     /\ kept("eventAction") => f.eventAction = last.event.type
                     /\ kept("eventLabel") => f.eventLabel = Href(last.link))
    /\ [][(/\ IsInteraction
           /\ env.sendBeacon
           /\ ShouldTrackOutboundLink(last'.link))
            => UNCHANGED handlerEffects]_vars

\* With the beacon transport and fallback "wait", a plain click on an
\* outbound link without target was handled and its event sent, with the
\* default transport and action and the label the hitFilter gave it.
C8_Witness ==
    /\ BeaconCase /\ Len(last.sent) = 1
    /\ opts.fallback = "wait"
    /\ ~OpensNewTab(last.event) /\ linkTarget[last.link] = ""
    /\ "eventLabel" \in last.changed
    /\ last.sent[1].fields.eventLabel # Href(last.link)
    /\ last.sent[1].fields.transport = "beacon"
    /\ last.sent[1].fields.eventAction = "click"

\* C10: when composing the hit throws in an interaction whose default
\* navigation the "wait" fallback prevented, nothing is sent and the
\* exception escapes the handler, but the timer started for the click stays
\* pending, and when it fires the closure navigates to the link's href.
C10_ThrowKeepsTimerArmed ==
    /\ [][(IsInteraction /\ last'.threw /\ last'.defaultPrevented)
            => /\ last'.sent = <<>>
               /\ error' = "HitFilterError"
               /\ fallbackTimeout' = NextSlot
               /\ timers'[NextSlot] = "pending"
               /\ cbLink'[NextSlot] = last'.link
               /\ ~hitCallbackHasRun'[NextSlot]]_vars
    /\ [][\A k \in Slots :
            (/\ Deferred(k) /\ sendState[k] = "none"
             /\ timers[k] = "pending" /\ timers'[k] = "fired")
              => /\ location' = Href(cbLink[k])
                 /\ navCount'[k] = 1]_vars

\* The timer of a click whose hit composition threw has fired and the
\* closure has navigated.
C10_Witness ==
    \E k \in Slots :
        /\ Deferred(k) /\ sendState[k] = "none"
        /\ timers[k] = "fired" /\ navCount[k] = 1
        /\ location = Href(cbLink[k])

(***************************************************************************)
(* Properties of the default predicate.                                    *)
(***************************************************************************)
\* The link's scheme is exactly http or https.
HttpScheme(link) ==
    ParseUrl(Href(link)).protocol
        \in {<<"h","t","t","p",":">>, <<"h","t","t","p","s",":">>}

\* C11: for every link the handler is called with, the default predicate
\* returns true if and only if the link's hostname differs from the page's
\* and its scheme is exactly http or https; in particular it returns false
\* for every other scheme whatever the hostname.
C11_PredicateIffHttpOutbound ==
    last.ran =>
        /\ ShouldTrackOutboundLink(last.link)
              <=> (~SameHost(last.link) /\ HttpScheme(last.link))
        /\ ~HttpScheme(last.link) => ~ShouldTrackOutboundLink(last.link)

(***************************************************************************)
(* Properties of construction and of remove().                             *)
(***************************************************************************)
\* The browser has no window.addEventListener: the constructor returned at
\* the feature test.
Inert == ~env.addEventListener

\* The step is a call of remove().
IsRemove == removeCalls' = removeCalls + 1

\* C12: construction in a browser without addEventListener does not fail
\* and yields an inert handler: no listener is registered for any event,
\* and no later interaction reaches the handler, sends an event, changes a
\* link's target, prevents navigation or starts a timer.
C12_InertWithoutListenerSupport ==
    /\ [](Inert =>
            /\ ~delegates.defined
            /\ \A e \in EventTypes : ~Listening(e)
            /\ (clicks = 0 /\ ~removed) => error = NoError)
    /\ [][(Inert /\ IsInteraction)
            => /\ ~last'.ran
               /\ last'.sent = <<>>
               /\ ~last'.defaultPrevented
               /\ UNCHANGED handlerEffects
               /\ UNCHANGED <<hitCallbackHasRun, navCount, location, error>>]_vars

\* In a browser without addEventListener and without sendBeacon, two plain
\* clicks came on outbound links and neither reached the handler.
C12_Witness ==
    /\ Inert /\ ~env.sendBeacon
    /\ clicks = 2
    /\ last.event.type = "click" /\ ShouldTrackOutboundLink(last.link)
    /\ ~last.ran
    /\ \A k \in Slots : timers[k] = "unset"

\* C15: a second or later call of remove() on the same handler completes
\* without error and leaves the handler as the first call left it, with no
\* listener attached.
C15_RepeatedRemoveSucceeds ==
    [][(removed /\ IsRemove)
          => /\ error' = NoError
             /\ delegates' = delegates
             /\ \A e \in EventTypes : ~Listening(e)']_vars

\* C19: remove() on a handler constructed in a browser without
\* addEventListener completes without error and changes nothing.
C19_InertRemoveSucceeds ==
    [][(Inert /\ IsRemove)
          => /\ error' = NoError
             /\ UNCHANGED <<env, opts, delegates, linkTarget, fallbackTimeout,
                            timers, hitCallbackHasRun, cbLink, sendState,
                            navCount, location, clicks, last>>]_vars

(***************************************************************************)
(* Properties of the fallback strategies.                                  *)
(***************************************************************************)
\* The step is a run of the handler on a link its predicate accepts, in a
\* browser without sendBeacon and with the given fallback option.
FallbackRun(fallback) ==
    /\ IsInteraction
    /\ last'.ran
    /\ ShouldTrackOutboundLink(last'.link)
    /\ ~env.sendBeacon
    /\ opts.fallback = fallback

\* The handler run of this step did not defer the navigation: no
\* preventDefault, no hitCallback in the hit, no closure, no timer.
NotDeferredRun ==
    /\ ~last'.defaultPrevented
    /\ NoHitCallback(last')
    /\ UNCHANGED <<timers, fallbackTimeout, cbLink, sendState,
                   hitCallbackHasRun>>

\* The handler run of this step deferred the navigation: preventDefault, a
\* closure for the link, sent along as hitCallback, and a pending timer
\* whose handle is stored.
DeferredRun ==
    /\ last'.defaultPrevented
    /\ cbLink'[NextSlot] = last'.link
    /\ ~hitCallbackHasRun'[NextSlot]
    /\ timers'[NextSlot] = "pending"
    /\ fallbackTimeout' = NextSlot
    /\ \A i \in DOMAIN last'.sent :
          /\ "hitCallback" \in DOMAIN last'.sent[i].fields
          /\ last'.sent[i].fields.hitCallback = NextSlot

\* C13: without sendBeacon and with fallback "_blank", every interaction on
\* an outbound link sets that link's target to "_blank", also when nothing
\* is sent afterwards because composing the hit threw, and never prevents
\* the default navigation, attaches a hitCallback or starts a timer; and no
\* step of any other kind changes a link's target.
C13_BlankFallbackRewritesTarget ==
    /\ [][FallbackRun("_blank")
            => /\ linkTarget' = [linkTarget EXCEPT ![last'.link] = "_blank"]
               /\ NotDeferredRun]_vars
    /\ [][linkTarget' # linkTarget => FallbackRun("_blank")]_vars

\* With fallback "_blank", a plain click on a link declaring the target
\* frame1 was handled: the target is now "_blank" although composing the
\* hit threw and nothing was sent.
C13_Witness ==
    /\ TrackedCase /\ ~env.sendBeacon /\ opts.fallback = "_blank"
    /\ ~Modified(last.event)
    /\ DeclaredTarget(last.link) = "frame1"
    /\ linkTarget[last.link] = "_blank"
    /\ last.threw /\ last.sent = <<>>

\* The target is _self, _parent or _top in some spelling of the page.
FrameKeywordAnyCase(t) ==
    t \in {"_self", "_parent", "_top", "_SELF", "_PARENT", "_TOP"}

\* C14: without sendBeacon and with fallback "wait", an interaction on an
\* outbound link is deferred exactly when the handler determined no explicit
\* target: a link declaring a target other than _self, _parent or _top (in
\* any case) is never deferred, and an interaction without modifier on a
\* link with no target or with one of these keywords is deferred.
C14_WaitOnlyWithoutTarget ==
    [][FallbackRun("wait")
         => LET declared == linkTarget[last'.link]
            IN  /\ IF last'.target = "" THEN DeferredRun ELSE NotDeferredRun
                /\ (declared # "" /\ ~FrameKeywordAnyCase(declared))
                      => NotDeferredRun
                /\ (~Modified(last'.event)
                      /\ (declared = "" \/ FrameKeywordAnyCase(declared)))
                      => DeferredRun]_vars

\* With fallback "wait", a plain click on a link declaring _TOP was
\* deferred, and a plain click on a link declaring frame1 then was not.
C14_Witness ==
    /\ ~env.sendBeacon /\ opts.fallback = "wait"
    /\ \E k \in Slots : Deferred(k) /\ linkTarget[cbLink[k]] = "_TOP"
    /\ TrackedCase /\ ~Modified(last.event)
    /\ linkTarget[last.link] = "frame1"
    /\ ~last.defaultPrevented /\ Len(last.sent) = 1

(***************************************************************************)
(* Properties of the closure and its timer.                                *)
(***************************************************************************)
\* The body of closure k runs in this step: its first invocation.
BodyRuns(k) == ~hitCallbackHasRun[k] /\ hitCallbackHasRun'[k]

\* C16: the first invocation of the closure of a deferred click cancels
\* the timer started for that click and the timer of no other click; so a
\* click's timer never fires once the click's closure body has run, and the
\* timer of another click is left as it was.
C16_CallbackCancelsOwnTimer ==
    /\ [][\A k \in Slots :
            BodyRuns(k) => /\ timers'[k] # "pending"
                           /\ \A j \in Slots \ {k} : timers'[j] = timers[j]]_vars
    /\ [][\A k \in Slots :
            (timers[k] = "pending" /\ timers'[k] = "fired")
              => ~hitCallbackHasRun[k]]_vars

\* C17: a handler run prevents the default navigation if and only if, in
\* the same run, it makes a closure for the link, puts it into the hit as
\* hitCallback and starts a timer for it whose handle it stores; so while
\* a send carrying a closure can complete, the timer of that closure has
\* been started and a handle is stored; and document.location is assigned
\* only by such a closure, to the href of its link.
C17_PreventedIffCallbackArmed ==
    /\ [][IsInteraction
            => IF last'.defaultPrevented THEN DeferredRun ELSE NotDeferredRun]_vars
    /\ [](\A k \in Slots :
            sendState[k] # "none"
              => /\ Deferred(k)
                 /\ timers[k] # "unset"
                 /\ fallbackTimeout \in k..MaxClicks)
    /\ [][location' # location
            => \E k \in Slots : /\ Deferred(k)
                                /\ BodyRuns(k)
                                /\ location' = Href(cbLink[k])]_vars
    /\ [](\A k \in Slots : navCount[k] > 0 => Deferred(k))

\* The send of a deferred click completed while its timer was pending: the
\* closure found the handle, cancelled the timer and navigated.
C17_Witness ==
    \E k \in Slots :
        /\ Deferred(k) /\ sendState[k] = "completed"
        /\ timers[k] = "cleared" /\ fallbackTimeout = k
        /\ navCount[k] = 1 /\ location = Href(cbLink[k])

\* C18: remove() leaves timers, the stored handle and the closures' guards
\* as they are, and a deferred navigation whose timer is pending when
\* remove() has been called still takes place, exactly once.
C18_RemoveLeavesTimerAlone ==
    /\ [][IsRemove
            => UNCHANGED <<timers, fallbackTimeout, hitCallbackHasRun, cbLink,
                           sendState, navCount, location>>]_vars
    /\ \A k \in Slots :
          (removed /\ Deferred(k) /\ timers[k] = "pending" /\ navCount[k] = 0)
              ~> (navCount[k] = 1)
    /\ [](\A k \in Slots : navCount[k] <= 1)

====
